---- MODULE Spec2Model ----
(***************************************************************************)
(* Chat-history read API: the paginated, searchable, optionally            *)
(* session-grouped /api/chats endpoint in its three implementations:       *)
(*   "search"  the Go server with search    (n8n_chat_histories table)     *)
(*   "strict"  the Go server with validation (chats table)                 *)
(*   "next"    the Next.js route             (chats table)                 *)
(* Strings are sequences of one-character strings; Go ints are 64-bit      *)
(* two's-complement numbers held as four 16-bit limbs, least significant   *)
(* first, so products wrap exactly as in the compiled program.             *)
(***************************************************************************)
EXTENDS Integers, Sequences, FiniteSets, TLC

\* ------------------------------------------------------------- bounds
MaxRows == 3

\* ------------------------------------------------------------ strings
Blank == " "

LowerOf(c) == IF c = "A" THEN "a" ELSE IF c = "B" THEN "b" ELSE c

ToLower(s) == [i \in 1..Len(s) |-> LowerOf(s[i])]

RECURSIVE TrimLeft(_)
TrimLeft(s) == IF s # <<>> /\ Head(s) = Blank THEN TrimLeft(Tail(s)) ELSE s

RECURSIVE TrimRight(_)
TrimRight(s) ==
    IF s # <<>> /\ s[Len(s)] = Blank THEN TrimRight(SubSeq(s, 1, Len(s) - 1)) ELSE s

\* strings.TrimSpace
TrimSpace(s) == TrimRight(TrimLeft(s))

\* PostgreSQL LIKE: % matches any run of characters, _ any one character.
RECURSIVE LikeMatch(_, _)
LikeMatch(s, p) ==
    IF p = <<>> THEN s = <<>>
    ELSE IF Head(p) = "%"
         THEN LikeMatch(s, Tail(p)) \/ (s # <<>> /\ LikeMatch(Tail(s), p))
    ELSE IF Head(p) = "_"
         THEN s # <<>> /\ LikeMatch(Tail(s), Tail(p))
    ELSE s # <<>> /\ Head(s) = Head(p) /\ LikeMatch(Tail(s), Tail(p))

\* PostgreSQL ILIKE: LIKE on the case-folded operands.
ILike(s, p) == LikeMatch(ToLower(s), ToLower(p))

\* The pattern both Go search queries bind: "%" + searchTerm + "%".
SearchPattern(term) == <<"%">> \o term \o <<"%">>

\* Lexicographic order of two strings by character code (ORDER BY session_id).
CharCode(c) ==
    CASE c = " " -> 1 [] c = "%" -> 2 [] c = "-" -> 3 [] c = "0" -> 4 [] c = "1" -> 5
      [] c = "2" -> 6 [] c = "3" -> 7 [] c = "A" -> 8 [] c = "B" -> 9 [] c = "_" -> 10
      [] c = "a" -> 11 [] c = "b" -> 12 [] c = "s" -> 13 [] OTHER -> 14

RECURSIVE StrLess(_, _)
StrLess(a, b) ==
    IF b = <<>> THEN FALSE
    ELSE IF a = <<>> THEN TRUE
    ELSE IF Head(a) = Head(b) THEN StrLess(Tail(a), Tail(b))
    ELSE CharCode(Head(a)) < CharCode(Head(b))

StrLeq(a, b) == a = b \/ StrLess(a, b)

Elements(seq) == { seq[i] : i \in 1..Len(seq) }

\* strings.HasPrefix
HasPrefix(s, prefix) == Len(s) >= Len(prefix) /\ SubSeq(s, 1, Len(prefix)) = prefix

\* ------------------------------------------------------- 64-bit Go ints
LimbBase == 2^16

\* The limbs of a small TLA+ integer (|n| < 2^30), sign-extended.
Limbs(n) ==
    << n % LimbBase,
       (n \div LimbBase) % LimbBase,
       ((n \div LimbBase) \div LimbBase) % LimbBase,
       (((n \div LimbBase) \div LimbBase) \div LimbBase) % LimbBase >>

LimbNeg(l) == l[4] >= 2^15

LimbSmall(l) ==
    \/ l[4] = 0 /\ l[3] = 0 /\ l[2] < 2^14
    \/ l[4] = LimbBase - 1 /\ l[3] = LimbBase - 1 /\ l[2] >= LimbBase - 2^14

LimbVal(l) ==
    IF l[4] = 0 THEN l[1] + LimbBase * l[2] ELSE l[1] + LimbBase * (l[2] - LimbBase)

\* x + y modulo 2^64
LimbAdd(x, y) ==
    LET s1 == x[1] + y[1]
        s2 == x[2] + y[2] + (s1 \div LimbBase)
        s3 == x[3] + y[3] + (s2 \div LimbBase)
        s4 == x[4] + y[4] + (s3 \div LimbBase)
    IN  << s1 % LimbBase, s2 % LimbBase, s3 % LimbBase, s4 % LimbBase >>

\* x * k + d for 0 <= k, d < 2^14: the product modulo 2^64 and whether the
\* unsigned result left 64 bits.
LimbMulAdd(x, k, d) ==
    LET p1 == x[1] * k + d
        p2 == x[2] * k + (p1 \div LimbBase)
        p3 == x[3] * k + (p2 \div LimbBase)
        p4 == x[4] * k + (p3 \div LimbBase)
    IN  [ l    |-> << p1 % LimbBase, p2 % LimbBase, p3 % LimbBase, p4 % LimbBase >>,
          over |-> p4 \div LimbBase # 0 ]

\* Two's-complement negation.
LimbNegate(l) ==
    LimbAdd(<< LimbBase - 1 - l[1], LimbBase - 1 - l[2],
               LimbBase - 1 - l[3], LimbBase - 1 - l[4] >>, Limbs(1))

\* A number as the handlers hold it: k = "int" with its value in v when it is
\* small enough for plain arithmetic, k = "big" otherwise (value in the limbs
\* l), k = "nan" for JavaScript's NaN.
NumOfLimbs(l) ==
    IF LimbSmall(l) THEN [k |-> "int", v |-> LimbVal(l), l |-> l]
    ELSE [k |-> "big", v |-> 0, l |-> l]

Num(n) == [k |-> "int", v |-> n, l |-> Limbs(n)]

NaN == [k |-> "nan", v |-> 0, l |-> Limbs(0)]

MaxInt64 == << LimbBase - 1, LimbBase - 1, LimbBase - 1, 2^15 - 1 >>

MinInt64 == << 0, 0, 0, 2^15 >>

\* Go: x < n and x > n for a small constant n.
GoLess(x, n) == IF x.k = "int" THEN x.v < n ELSE LimbNeg(x.l)

GoGreater(x, n) == IF x.k = "int" THEN x.v > n ELSE ~LimbNeg(x.l)

\* Go: (page - 1) * pageSize on int, wrapping modulo 2^64; pageSize is in 1..100
\* wherever the handlers compute it.
GoOffset(page, pageSize) ==
    NumOfLimbs(LimbMulAdd(LimbAdd(page.l, Limbs(-1)), pageSize.v, 0).l)

\* ------------------------------------------------------------ parsing
Digits == << "0", "1", "2", "3", "4", "5", "6", "7", "8", "9" >>

IsDigit(c) == \E i \in 1..10 : Digits[i] = c

DigitVal(c) == (CHOOSE i \in 1..10 : Digits[i] = c) - 1

Min(a, b) == IF a <= b THEN a ELSE b

Max(a, b) == IF a >= b THEN a ELSE b

\* The value of at most four digits.
ChunkVal(c) ==
    LET n    == Len(c)
        D(i) == IF i <= n THEN DigitVal(c[i]) * 10^(n - i) ELSE 0
    IN  D(1) + D(2) + D(3) + D(4)

\* The unsigned value of a run of digits, taken four digits at a time: limbs and
\* whether it passed 2^63 - 1.
RECURSIVE ParseDigits(_, _)
ParseDigits(s, acc) ==
    IF s = <<>> THEN acc
    ELSE LET n == Min(4, Len(s))
             m == LimbMulAdd(acc.l, 10^n, ChunkVal(SubSeq(s, 1, n)))
         IN  ParseDigits(SubSeq(s, n + 1, Len(s)),
                 [l |-> m.l, over |-> acc.over \/ m.over \/ LimbNeg(m.l)])

AllDigits(s) == s # <<>> /\ \A i \in 1..Len(s) : IsDigit(s[i])

\* strconv.Atoi: the value and whether err # nil.  A syntax error gives 0, a
\* range error the nearest int64.
Atoi(s) ==
    LET neg  == s # <<>> /\ Head(s) = "-"
        body == IF s # <<>> /\ Head(s) \in {"-", "+"} THEN Tail(s) ELSE s
        mag  == ParseDigits(body, [l |-> Limbs(0), over |-> FALSE])
    IN  IF ~AllDigits(body) THEN [val |-> Num(0), err |-> TRUE]
        ELSE IF mag.over
             THEN [val |-> NumOfLimbs(IF neg THEN MinInt64 ELSE MaxInt64), err |-> TRUE]
        ELSE [val |-> NumOfLimbs(IF neg THEN LimbNegate(mag.l) ELSE mag.l), err |-> FALSE]

\* A JavaScript number too large for a PostgreSQL bigint; v is its sign.
Huge(sign) == [k |-> "huge", v |-> sign, l |-> Limbs(0)]

RECURSIVE DigitPrefix(_)
DigitPrefix(s) ==
    IF s # <<>> /\ IsDigit(Head(s)) THEN <<Head(s)>> \o DigitPrefix(Tail(s)) ELSE <<>>

\* parseInt(s): leading blanks and a sign are skipped, the digits that follow
\* are read and whatever comes after them is ignored; NaN when there is no
\* digit.  A double past 2^53 is held without its rounding.
ParseInt(s) ==
    LET t    == TrimLeft(s)
        neg  == t # <<>> /\ Head(t) = "-"
        body == IF t # <<>> /\ Head(t) \in {"-", "+"} THEN Tail(t) ELSE t
        pre  == DigitPrefix(body)
        mag  == ParseDigits(pre, [l |-> Limbs(0), over |-> FALSE])
    IN  IF pre = <<>> THEN NaN
        ELSE IF mag.over THEN Huge(IF neg THEN -1 ELSE 1)
        ELSE NumOfLimbs(IF neg THEN LimbNegate(mag.l) ELSE mag.l)

\* JavaScript: x < n and x > n for a small constant n (false for NaN).
JsLess(x, n) ==
    CASE x.k = "int" -> x.v < n
      [] x.k = "big" -> LimbNeg(x.l)
      [] x.k = "huge" -> x.v < 0
      [] OTHER -> FALSE

JsGreater(x, n) ==
    CASE x.k = "int" -> x.v > n
      [] x.k = "big" -> ~LimbNeg(x.l)
      [] x.k = "huge" -> x.v > 0
      [] OTHER -> FALSE

\* JavaScript: (page - 1) * pageSize on doubles: no wrap-around, NaN is
\* contagious.  The route uses it for page >= 1 or NaN and pageSize in 1..100 or NaN.
JsOffset(page, pageSize) ==
    IF page.k = "nan" \/ pageSize.k = "nan" THEN NaN
    ELSE IF page.k = "huge" THEN page
    ELSE LET m == LimbMulAdd(LimbAdd(page.l, Limbs(-1)), pageSize.v, 0)
         IN  IF m.over \/ LimbNeg(m.l) THEN Huge(1) ELSE NumOfLimbs(m.l)

\* --------------------------------------------------- program constants
DefaultPage == 1

DefaultPageSize == 10

MaxPageSize == 100

\* ------------------------------------------------------------- inputs
\* Query-string values a client sends; <<>> is a missing (or empty) parameter.
\* BigPage is 2^62 + 1, a page number an int64 holds.
BigPage ==
    << "4", "6", "1", "1", "6", "8", "6", "0", "1", "8", "4", "2", "7", "3", "8",
       "7", "9", "0", "5" >>

SessionIds == { <<"s", "1">>, <<"s", "2">> }

Messages == { <<"a", "B">>, <<"b">> }

Dates == { 1, 2 }

EnginePages == { <<"1">>, <<"2">>, <<"3">>, BigPage }

EngineSizes == { <<"1">>, <<"2">>, <<"4">> }

EngineSearches == { <<>>, <<"a">>, <<" ", "A">>, <<"_">>, <<"1">> }

ParamsPages == { <<>>, <<"a">>, <<"0">>, <<"-", "1">>, <<"1">>, <<"2">>, BigPage }

ParamsSizes ==
    { <<>>, <<"a">>, <<"0">>, <<"-", "1">>, <<"1">>, <<"1", "0", "0">>, <<"1", "0", "1">> }

PagingPages == { <<"1">>, <<"2">> }

PagingSizes == { <<"1">>, <<"2">> }

PagingSearches == { <<>>, <<"b">> }

\* What the edge-case clients send: defaults and a second page, every kind of
\* sortOrder and groupBy.
\* A stored payload that json.Unmarshal cannot put into a Message: a JSON array.
Malformed == << "[", "]" >>

\* The origin CHAT_URL allows, and another origin.
AllowedOrigin == << "a", ".", "i", "o" >>

OtherOrigin == << "e", ".", "i", "o" >>

ChatsPath == "/api/chats"

StatsPath == "/api/stats"

Variants == { "search", "strict", "next" }

Profiles == { "engine", "params", "paging", "racing", "edges" }

PageInputs(pf) ==
    IF pf = "engine" THEN EnginePages ELSE IF pf = "params" THEN ParamsPages
    ELSE IF pf = "edges" THEN { <<>>, <<"2">> } ELSE PagingPages

SizeInputs(pf) ==
    IF pf = "engine" THEN EngineSizes ELSE IF pf = "params" THEN ParamsSizes
    ELSE IF pf = "edges" THEN { <<>>, <<"1">> } ELSE PagingSizes

SortInputs(pf) ==
    IF pf = "engine" THEN { "asc", "desc" }
    ELSE IF pf \in { "params", "edges" } THEN { "", "asc", "desc", "DESC" } ELSE { "asc" }

GroupInputs(pf) ==
    IF pf \in { "params", "edges" } THEN { "", "simple", "session", "sessions" }
    ELSE { "simple", "session" }

\* Only the search-enabled Go handler reads the search parameter.
SearchInputs(pf, v) ==
    IF v # "search" THEN { <<>> }
    ELSE IF pf = "engine" THEN EngineSearches
    ELSE IF pf \in { "params", "edges" } THEN { <<>> } ELSE PagingSearches

\* The Next.js routes export GET only, so the framework never calls them otherwise.
MethodInputs(pf, v) ==
    IF pf \in { "params", "edges" } /\ v # "next" THEN { "GET", "POST" } ELSE { "GET" }

\* A request without query parameters.
PlainRequest(method, path, origin, referer) ==
    [ method |-> method, path |-> path, origin |-> origin, referer |-> referer,
      page |-> <<>>, pageSize |-> <<>>, sortOrder |-> "", groupBy |-> "", search |-> <<>> ]

\* The /api/chats requests of the browser UI (which the allowed origin serves).
ChatsRequests(pf, v) ==
    { r \in [ method : MethodInputs(pf, v), path : { ChatsPath }, origin : { AllowedOrigin },
              referer : { <<>> }, page : PageInputs(pf), pageSize : SizeInputs(pf),
              sortOrder : SortInputs(pf), groupBy : GroupInputs(pf),
              search : SearchInputs(pf, v) ] :
        r.method = "GET" \/ (r.page = <<>> /\ r.pageSize = <<>> /\ r.sortOrder = ""
                               /\ r.groupBy = "" /\ r.search = <<>>) }

\* The /api/stats requests of the browser UI.
StatsRequests(pf, v) ==
    { PlainRequest(m, StatsPath, AllowedOrigin, <<>>) :
        m \in IF v = "search" THEN {} ELSE MethodInputs(pf, v) }

\* Requests of other clients, with their Origin and Referer headers (only the
\* Go servers read them): no header, the allowed origin or another one; no
\* Referer, a page of the allowed origin, a page of another origin, or a page
\* of an origin whose name begins with the allowed one.  The search-enabled Go
\* server routes no /api/stats.
ForeignRequests(pf, v) ==
    IF v = "next" THEN {}
    ELSE { PlainRequest("GET", p, o, f) :
             p \in IF v = "search" THEN { ChatsPath } ELSE { ChatsPath, StatsPath },
             o \in IF pf = "edges" THEN { <<>>, AllowedOrigin, OtherOrigin } ELSE { OtherOrigin },
             f \in IF pf = "edges"
                   THEN { <<>>, AllowedOrigin \o << "/" >>, OtherOrigin \o << "/" >>,
                          AllowedOrigin \o << ".", "e", "/" >> }
                   ELSE { <<>> } }

RawRequests(pf, v) == ChatsRequests(pf, v) \cup StatsRequests(pf, v) \cup ForeignRequests(pf, v)

RowBound(pf) == IF pf = "params" THEN 1 ELSE MaxRows

\* The payloads the workflow stores; the edge-case runs have a malformed one.
MessageInputs(pf) == IF pf = "edges" THEN { <<"b">>, Malformed } ELSE Messages

\* -------------------------------------------------------------- state
VARIABLES
    variant,     \* which of the three programs serves /api/chats
    profile,     \* which inputs the clients of this run send
    table,       \* the chat table, in insertion order
    dirty,       \* a row was inserted since the request in hand was received
    raw,         \* the query parameters of the request in hand
    req,         \* the handler's locals: page, pageSize, sortOrder, groupBy, ...
    pc,          \* the handler's position
    sessionIDs,  \* handleSessionGrouping's sessionIDs
    chats,       \* handleSimplePagination's chats / handleSessionGrouping's groupedChats
    resp,        \* the response written
    prev,        \* the previous exchange on the same table (paging runs)
    stats,       \* the four count queries of the /api/stats request in hand
    handler,     \* the handler the request in hand was routed to, "" while none
    initErr,     \* initDB returned an error
    snapshot,    \* the number of rows the table had when the data query read it
    ui           \* ChatsUI's state in the browser

vars ==
    << variant, profile, table, dirty, raw, req, pc, sessionIDs, chats, resp, prev, stats,
       handler, initErr, snapshot, ui >>

NoRaw == PlainRequest("GET", ChatsPath, <<>>, <<>>)

NoReq ==
    [ page |-> Num(0), pageSize |-> Num(0), sortOrder |-> "", groupBy |-> "",
      searchTerm |-> <<>>, offset |-> Num(0) ]

NoData == [ t |-> "none", rows |-> <<>>, map |-> <<>> ]

NoResp == [ status |-> 0 ]

NoPrev == [ set |-> FALSE ]

\* pageSize: 10
UIPageSize == 10

\* ChatsUI on mount: the initial values of useState, the first fetch under way
\* and data undefined; clicked and from remember the last pagination button
\* clicked and the page it was clicked on.
Mounted ==
    [ page |-> 1, totalPages |-> 0, groupBy |-> "simple", sortOrder |-> "desc",
      searchTerm |-> <<>>, isLoading |-> TRUE, data |-> FALSE, dataTotalPages |-> 0,
      clicked |-> "", from |-> 0 ]

\* The counts of /api/stats, in the order the handlers start their queries.
StatsKeys == << "daily", "monthly", "yearly", "allTime" >>

\* A count query: not started ("idle"), "running", or over with "ok" or "failed";
\* in the Go handler also the results waiting in its channel (ch), whether the
\* handler has received from it (got), and "blocked" for a goroutine that
\* cannot send.
NoStats ==
    [ k \in Elements(StatsKeys) |-> [ st |-> "idle", count |-> 0, ch |-> 0, got |-> FALSE ] ]

\* ------------------------------------------------------ the database
RowsOf(tbl) == { tbl[i] : i \in 1..Len(tbl) }

\* Every enumeration of a finite set as a sequence.
InjSeqs(S) ==
    { f \in [1..Cardinality(S) -> S] : \A i, j \in 1..Cardinality(S) : i # j => f[i] # f[j] }

\* ORDER BY id [DESC]: ids are unique, so there is one such order.
OrderedById(S, desc) ==
    { p \in InjSeqs(S) :
        \A i, j \in 1..Len(p) :
            i < j => IF desc THEN p[i].id >= p[j].id ELSE p[i].id <= p[j].id }

\* ORDER BY created_at [DESC]: rows of one date come in any order.
OrderedByDate(S, desc) ==
    { p \in InjSeqs(S) :
        \A i, j \in 1..Len(p) :
            i < j => IF desc THEN p[i].createdAt >= p[j].createdAt
                     ELSE p[i].createdAt <= p[j].createdAt }

\* ORDER BY created_at [DESC], session_id
OrderedByDateThenSession(S, desc) ==
    { p \in OrderedByDate(S, desc) :
        \A i, j \in 1..Len(p) :
            (i < j /\ p[i].createdAt = p[j].createdAt) => StrLeq(p[i].sessionId, p[j].sessionId) }

\* ORDER BY session_id on a set of session ids.
OrderedIds(S) ==
    { p \in InjSeqs(S) : \A i, j \in 1..Len(p) : i < j => StrLess(p[i], p[j]) }

\* A LIMIT or OFFSET parameter PostgreSQL refuses: negative, or no bigint.
BadBound(n) ==
    \/ n.k = "huge"
    \/ n.k = "int" /\ n.v < 0
    \/ n.k = "big" /\ LimbNeg(n.l)

\* LIMIT limit OFFSET offset over an ordered result.  The query builder of the
\* Next.js route leaves out a clause whose value is NaN.
Window(seq, limit, offset) ==
    LET from == IF offset.k = "int" THEN offset.v ELSE IF offset.k = "nan" THEN 0 ELSE Len(seq)
        upto == IF limit.k = "int" THEN Min(Len(seq), from + limit.v) ELSE Len(seq)
    IN  SubSeq(seq, from + 1, upto)

\* WHERE message::text ILIKE $p OR session_id ILIKE $p, $p = "%" + term + "%"
MatchesSearch(row, term) ==
    \/ ILike(row.message, SearchPattern(term))
    \/ ILike(row.sessionId, SearchPattern(term))

DistinctSessions(rows) == { r.sessionId : r \in rows }

\* WHERE session_id IN (ids)
InSessions(tbl, ids) == { r \in RowsOf(tbl) : \E i \in 1..Len(ids) : ids[i] = r.sessionId }

\* The append loop of the grouping: each session present, its rows in result order.
GroupBySession(seq) ==
    [ s \in DistinctSessions(RowsOf(seq)) |-> SelectSeq(seq, LAMBDA r : r.sessionId = s) ]

\* Go integer division (truncating); the operands here are never negative.
GoDiv(a, b) == IF a >= 0 THEN a \div b ELSE -((-a) \div b)

\* ------------------------------------------------------------ responses
JsonError(status, message) ==
    [ status |-> status, ctype |-> "json", body |-> [ error |-> message ] ]

\* http.Error: a text/plain body.
TextError(status, message) ==
    [ status |-> status, ctype |-> "text", body |-> [ text |-> message ] ]

JsonOK(data, pagination) ==
    [ status |-> 200, ctype |-> "json", body |-> [ data |-> data, pagination |-> pagination ] ]

InternalError == JsonError(500, "Internal server error")

\* A Go slice that was never appended to is nil and encodes as null.
GoSlice(seq) ==
    IF seq = <<>> THEN [ t |-> "null", rows |-> <<>>, map |-> <<>> ]
    ELSE [ t |-> "array", rows |-> seq, map |-> <<>> ]

JsArray(seq) == [ t |-> "array", rows |-> seq, map |-> <<>> ]

JsonObject(m) == [ t |-> "object", rows |-> <<>>, map |-> m ]

\* totalPages := (total + pageSize - 1) / pageSize
GoTotalPages(total, pageSize) == GoDiv(total + pageSize - 1, pageSize)

GoPagination(q, total, groupBy) ==
    [ page |-> q.page, pageSize |-> q.pageSize, total |-> Num(total),
      totalPages |-> Num(GoTotalPages(total, q.pageSize.v)), groupBy |-> groupBy ]

\* The pagination of the early return on an empty page of sessions.
GoEmptyPagination(q) ==
    [ page |-> q.page, pageSize |-> q.pageSize, total |-> Num(0), totalPages |-> Num(0),
      groupBy |-> "session" ]

\* ------------------------------------------------- steps of an exchange
\* mux.HandleFunc: the handler registered for a path.
HandlerFor(path) == IF path = StatsPath THEN "GetChatStatsHandler" ELSE "GetChatsHandler"

Accept(r, q, next) ==
    /\ raw' = r
    /\ req' = q
    /\ pc' = next
    /\ dirty' = FALSE
    /\ handler' = HandlerFor(r.path)
    /\ UNCHANGED << variant, profile, ui, initErr, snapshot, stats, table, prev, sessionIDs,
                    chats, resp >>

Reject(r, response) ==
    /\ raw' = r
    /\ resp' = response
    /\ pc' = "done"
    /\ dirty' = FALSE
    /\ handler' = HandlerFor(r.path)
    /\ UNCHANGED << variant, profile, ui, initErr, snapshot, stats, table, prev, req, sessionIDs,
                    chats >>

\* The middleware answers by itself: next.ServeHTTP is not called.
Forbid(r, response) ==
    /\ raw' = r
    /\ resp' = response
    /\ pc' = "done"
    /\ dirty' = FALSE
    /\ UNCHANGED << variant, profile, ui, initErr, snapshot, stats, handler, table, prev, req,
                    sessionIDs, chats >>

\* The stats handler starts its four count queries.
StartStats(r) ==
    /\ raw' = r
    /\ pc' = "stats"
    /\ dirty' = FALSE
    /\ handler' = HandlerFor(r.path)
    /\ stats' = [ k \in Elements(StatsKeys) |->
                      [ st |-> "running", count |-> 0, ch |-> 0, got |-> FALSE ] ]
    /\ UNCHANGED << variant, profile, ui, initErr, snapshot, table, prev, req, sessionIDs, chats,
                    resp >>

\* A step of one count query of the stats handler, or of its channel.
StatsResolved(k, result) ==
    /\ stats' = [ stats EXCEPT ![k] = result ]
    /\ UNCHANGED << variant, profile, ui, initErr, snapshot, handler, table, dirty, raw, req, pc,
                    sessionIDs, chats,
                    resp, prev >>

\* The first statement of a chats handler, the data query, reads the table as
\* it is when the statement runs.
Snapshot == IF pc \in { "rows", "sessions" } THEN Len(table) ELSE snapshot

Respond(response) ==
    /\ resp' = response
    /\ pc' = "done"
    /\ snapshot' = Snapshot
    /\ UNCHANGED << variant, profile, ui, initErr, stats, handler, table, dirty, raw, req,
                    sessionIDs, chats, prev >>

GotRows(data, next) ==
    /\ chats' = data
    /\ pc' = next
    /\ snapshot' = Snapshot
    /\ UNCHANGED << variant, profile, ui, initErr, stats, handler, table, dirty, raw, req,
                    sessionIDs, resp, prev >>

GotSessions(ids, next) ==
    /\ sessionIDs' = ids
    /\ pc' = next
    /\ snapshot' = Snapshot
    /\ UNCHANGED << variant, profile, ui, initErr, stats, handler, table, dirty, raw, req, chats,
                    resp, prev >>

\* ---------------------------------------- the search-enabled Go server
\* A variant of the parsing that clamps a pageSize above the maximum to the
\* maximum instead of falling back to the default.
ParseSearchClamping(r) ==
    LET p  == Atoi(r.page).val
        ps == Atoi(r.pageSize).val
        page     == IF GoLess(p, 1) THEN Num(DefaultPage) ELSE p
        pageSize == IF GoLess(ps, 1) THEN Num(DefaultPageSize)
                    ELSE IF GoGreater(ps, MaxPageSize) THEN Num(MaxPageSize) ELSE ps
    IN  [ page       |-> page,
          pageSize   |-> pageSize,
          sortOrder  |-> IF r.sortOrder # "asc" /\ r.sortOrder # "desc" THEN "asc"
                         ELSE r.sortOrder,
          groupBy    |-> IF r.groupBy = "" THEN "simple" ELSE r.groupBy,
          searchTerm |-> TrimSpace(r.search),
          offset     |-> GoOffset(page, pageSize) ]

\* GetChatsHandler's parsing: errors of Atoi are dropped, values out of range
\* fall back to the defaults.
ParseSearch(r) ==
    LET p  == Atoi(r.page).val
        ps == Atoi(r.pageSize).val
        page     == IF GoLess(p, 1) THEN Num(DefaultPage) ELSE p
        pageSize == IF GoLess(ps, 1) \/ GoGreater(ps, MaxPageSize)
                    THEN Num(DefaultPageSize) ELSE ps
    IN  [ page       |-> page,
          pageSize   |-> pageSize,
          sortOrder  |-> IF r.sortOrder # "asc" /\ r.sortOrder # "desc" THEN "asc"
                         ELSE r.sortOrder,
          groupBy    |-> IF r.groupBy = "" THEN "simple" ELSE r.groupBy,
          searchTerm |-> TrimSpace(r.search),
          offset     |-> GoOffset(page, pageSize) ]

\* The rows the WHERE clause keeps: all of them when searchTerm = "".
SearchFilter(tbl, term) ==
    IF term # <<>> THEN { r \in RowsOf(tbl) : MatchesSearch(r, term) } ELSE RowsOf(tbl)

\* SELECT ... [WHERE ...] ORDER BY id ASC|DESC LIMIT pageSize OFFSET offset
SearchSimpleRows(tbl, q) ==
    { Window(o, q.pageSize, q.offset) :
        o \in OrderedById(SearchFilter(tbl, q.searchTerm), q.sortOrder = "desc") }

\* SELECT COUNT(*) ... [WHERE ...]
SearchSimpleCount(tbl, q) == Cardinality(SearchFilter(tbl, q.searchTerm))

\* SELECT DISTINCT session_id ... [WHERE ...] ORDER BY session_id LIMIT .. OFFSET ..
SearchSessionIds(tbl, q) ==
    { Window(o, q.pageSize, q.offset) :
        o \in OrderedIds(DistinctSessions(SearchFilter(tbl, q.searchTerm))) }

\* A variant of the chats query that keeps the search filter on the rows.
SearchSessionChatsMatching(tbl, ids, q) ==
    OrderedById(InSessions(tbl, ids) \cap SearchFilter(tbl, q.searchTerm),
                q.sortOrder = "desc")

\* A variant of the chats query that always orders ascending.
SearchSessionChatsAscending(tbl, ids, q) ==
    OrderedById(InSessions(tbl, ids), FALSE)

\* SELECT ... WHERE session_id IN (sessionIDs) ORDER BY id ASC|DESC
SearchSessionChats(tbl, ids, q) ==
    OrderedById(InSessions(tbl, ids), q.sortOrder = "desc")

\* SELECT COUNT(DISTINCT session_id) ... [WHERE ...]
SearchSessionCount(tbl, q) == Cardinality(DistinctSessions(SearchFilter(tbl, q.searchTerm)))

\* A variant of the middleware that looks at the Referer header only.
originCheckRefererOnly(r) ==
    IF r.referer # <<>> /\ ~HasPrefix(r.referer, AllowedOrigin)
    THEN TextError(403, "Forbidden - invalid referer")
    ELSE NoResp

\* The answer of the middleware, NoResp when it calls next.ServeHTTP.
originCheckMiddleware(r) ==
    IF r.origin # <<>> /\ r.origin # AllowedOrigin
    THEN TextError(403, "Forbidden - invalid origin")
    ELSE IF r.referer # <<>> /\ ~HasPrefix(r.referer, AllowedOrigin)
    THEN TextError(403, "Forbidden - invalid referer")
    ELSE NoResp

\* The middleware turns the request away.
OriginCheckForbidden ==
    /\ variant = "search"
    /\ pc = "idle"
    /\ \E r \in RawRequests(profile, variant) :
          /\ originCheckMiddleware(r) # NoResp
          /\ Forbid(r, originCheckMiddleware(r))

GetChatsHandler ==
    /\ variant = "search"
    /\ pc = "idle"
    /\ \E r \in RawRequests(profile, variant) :
          /\ originCheckMiddleware(r) = NoResp
          /\ r.path = ChatsPath
          /\ IF r.method # "GET" THEN Reject(r, TextError(405, "Method not allowed"))
             ELSE LET q == ParseSearch(r)
                  IN  Accept(r, q, IF q.groupBy = "session" THEN "sessions" ELSE "rows")

\* A variant of json.Unmarshal that accepts every payload.
UnmarshalAnything(message) == TRUE

\* json.Unmarshal(messageJSON, &chat.Message) returns no error: the stored
\* payload is a JSON object, which the Message struct can take.
Unmarshal(message) == message # Malformed

\* The rows loop runs to its end: every payload of the result set unmarshals.
Scanned(rows) == \A i \in 1..Len(rows) : Unmarshal(rows[i].message)

\* handleSimplePagination up to the end of the rows loop.
SimpleQuery ==
    /\ variant = "search"
    /\ pc = "rows"
    /\ \/ Respond(InternalError)
       \/ /\ ~(BadBound(req.pageSize) \/ BadBound(req.offset))
          /\ \E rows \in SearchSimpleRows(table, req) :
                IF Scanned(rows)
                THEN GotRows(GoSlice(rows), "count")
                ELSE Respond(InternalError)

\* handleSimplePagination from the count query to the response.
SimpleCount ==
    /\ variant = "search"
    /\ pc = "count"
    /\ \/ Respond(InternalError)
       \/ \E n \in { SearchSimpleCount(table, req) } :
             Respond(JsonOK(chats, GoPagination(req, n, "simple")))

\* handleSessionGrouping up to the early return on no session.
SessionQuery ==
    /\ variant = "search"
    /\ pc = "sessions"
    /\ \/ Respond(InternalError)
       \/ /\ ~(BadBound(req.pageSize) \/ BadBound(req.offset))
          /\ \E ids \in SearchSessionIds(table, req) :
                IF Len(ids) = 0
                THEN Respond(JsonOK(JsonObject(<<>>), GoEmptyPagination(req)))
                ELSE GotSessions(ids, "chats")

\* handleSessionGrouping: the chats query and the grouping loop.  A conversation
\* holds the message of each of its rows; the rows stand for them here.
SessionChats ==
    /\ variant = "search"
    /\ pc = "chats"
    /\ \/ Respond(InternalError)
       \/ \E rows \in SearchSessionChats(table, sessionIDs, req) :
             IF Scanned(rows)
             THEN GotRows(JsonObject(GroupBySession(rows)), "sessionCount")
             ELSE Respond(InternalError)

\* handleSessionGrouping from the count query to the response.
SessionCount ==
    /\ variant = "search"
    /\ pc = "sessionCount"
    /\ \/ Respond(InternalError)
       \/ \E n \in { SearchSessionCount(table, req) } :
             Respond(JsonOK(chats, GoPagination(req, n, "session")))

\* ------------------------------------------------ the strict Go server
\* GetChatsHandler's parsing: an error of Atoi or a zero gives the default.
ParseStrict(r) ==
    LET p  == Atoi(r.page)
        ps == Atoi(r.pageSize)
        page     == IF p.err \/ p.val = Num(0) THEN Num(DefaultPage) ELSE p.val
        pageSize == IF ps.err \/ ps.val = Num(0) THEN Num(DefaultPageSize) ELSE ps.val
    IN  [ page       |-> page,
          pageSize   |-> pageSize,
          sortOrder  |-> IF r.sortOrder # "asc" /\ r.sortOrder # "desc" THEN "asc"
                         ELSE r.sortOrder,
          groupBy    |-> IF r.groupBy = "" THEN "simple" ELSE r.groupBy,
          searchTerm |-> <<>>,
          offset     |-> GoOffset(page, pageSize) ]

\* SELECT ... FROM chats ORDER BY created_at ASC|DESC LIMIT pageSize OFFSET offset
StrictSimpleRows(tbl, q) ==
    { Window(o, q.pageSize, q.offset) : o \in OrderedByDate(RowsOf(tbl), q.sortOrder = "desc") }

\* SELECT DISTINCT session_id FROM chats LIMIT pageSize OFFSET offset: there is
\* no ORDER BY, so the distinct ids come in whatever order the plan yields.
StrictSessionIds(tbl, q) ==
    { Window(o, q.pageSize, q.offset) : o \in InjSeqs(DistinctSessions(RowsOf(tbl))) }

\* SELECT ... WHERE session_id IN (sessionIDs) ORDER BY created_at ASC|DESC, session_id
StrictSessionChats(tbl, ids, q) ==
    OrderedByDateThenSession(InSessions(tbl, ids), q.sortOrder = "desc")

\* The answer of the middleware, NoResp when it calls next.ServeHTTP.
StrictOriginCheckMiddleware(r) ==
    IF r.origin = <<>> \/ r.origin # AllowedOrigin
    THEN TextError(403, "Forbidden")
    ELSE NoResp

\* The middleware turns the request away.
StrictOriginCheckForbidden ==
    /\ variant = "strict"
    /\ pc = "idle"
    /\ \E r \in RawRequests(profile, variant) :
          /\ StrictOriginCheckMiddleware(r) # NoResp
          /\ Forbid(r, StrictOriginCheckMiddleware(r))

StrictGetChatsHandler ==
    /\ variant = "strict"
    /\ pc = "idle"
    /\ \E r \in RawRequests(profile, variant) :
          /\ StrictOriginCheckMiddleware(r) = NoResp
          /\ r.path = ChatsPath
          /\ IF r.method # "GET" THEN Reject(r, TextError(405, "Method not allowed"))
             ELSE LET q == ParseStrict(r)
                  IN  IF GoLess(q.page, 1)
                      THEN Reject(r, JsonError(400, "Page must be greater than 0"))
                      ELSE IF GoLess(q.pageSize, 1) \/ GoGreater(q.pageSize, MaxPageSize)
                      THEN Reject(r, JsonError(400, "Page size must be between 1 and 100"))
                      ELSE Accept(r, q, IF q.groupBy = "session" THEN "sessions" ELSE "rows")

\* handleSimplePagination up to the end of the rows loop.
StrictSimpleQuery ==
    /\ variant = "strict"
    /\ pc = "rows"
    /\ \/ Respond(InternalError)
       \/ /\ ~(BadBound(req.pageSize) \/ BadBound(req.offset))
          /\ \E rows \in StrictSimpleRows(table, req) :
                GotRows(GoSlice(rows), "count")

\* handleSimplePagination from the count query to the response.
StrictSimpleCount ==
    /\ variant = "strict"
    /\ pc = "count"
    /\ \/ Respond(InternalError)
       \/ \E n \in { Len(table) } :
             Respond(JsonOK(chats, GoPagination(req, n, "simple")))

\* handleSessionGrouping up to the early return on no session.
StrictSessionQuery ==
    /\ variant = "strict"
    /\ pc = "sessions"
    /\ \/ Respond(InternalError)
       \/ /\ ~(BadBound(req.pageSize) \/ BadBound(req.offset))
          /\ \E ids \in StrictSessionIds(table, req) :
                IF Len(ids) = 0
                THEN Respond(JsonOK(JsonObject(<<>>), GoEmptyPagination(req)))
                ELSE GotSessions(ids, "chats")

\* handleSessionGrouping: the chats query and the grouping loop.
StrictSessionChatsQuery ==
    /\ variant = "strict"
    /\ pc = "chats"
    /\ \/ Respond(InternalError)
       \/ \E rows \in StrictSessionChats(table, sessionIDs, req) :
             GotRows(JsonObject(GroupBySession(rows)), "sessionCount")

\* handleSessionGrouping from the count query to the response.
StrictSessionCount ==
    /\ variant = "strict"
    /\ pc = "sessionCount"
    /\ \/ Respond(InternalError)
       \/ \E n \in { Cardinality(DistinctSessions(RowsOf(table))) } :
             Respond(JsonOK(chats, GoPagination(req, n, "session")))

\* --------------------------------------------------- the Next.js route
\* Math.ceil(total / pageSize) for total >= 0 and pageSize >= 1.
MathCeilDiv(total, pageSize) ==
    IF total % pageSize = 0 THEN total \div pageSize ELSE total \div pageSize + 1

\* GET's parsing: a missing or empty parameter takes its default before parseInt.
ParseNext(r) ==
    LET page     == ParseInt(IF r.page = <<>> THEN <<"1">> ELSE r.page)
        pageSize == ParseInt(IF r.pageSize = <<>> THEN <<"1", "0">> ELSE r.pageSize)
    IN  [ page       |-> page,
          pageSize   |-> pageSize,
          sortOrder  |-> IF r.sortOrder = "" THEN "asc" ELSE r.sortOrder,
          groupBy    |-> IF r.groupBy = "" THEN "simple" ELSE r.groupBy,
          searchTerm |-> <<>>,
          offset     |-> JsOffset(page, pageSize) ]

NextPagination(q, total, groupBy) ==
    [ page |-> q.page, pageSize |-> q.pageSize, total |-> Num(total),
      totalPages |-> IF q.pageSize.k = "int" THEN Num(MathCeilDiv(total, q.pageSize.v))
                     ELSE NaN,
      groupBy |-> groupBy ]

\* The pagination of the early return on an empty page of sessions.
NextEmptyPagination(q) ==
    [ page |-> q.page, pageSize |-> q.pageSize, totalSessions |-> Num(0),
      totalPages |-> Num(0) ]

\* orderBy(sortOrder === "asc" ? asc(createdAt) : desc(createdAt))
NextSimpleRows(tbl, q) ==
    { Window(o, q.pageSize, q.offset) : o \in OrderedByDate(RowsOf(tbl), q.sortOrder # "asc") }

\* selectDistinct(sessionId).limit(pageSize).offset(offset): no ORDER BY.
NextSessionIds(tbl, q) ==
    { Window(o, q.pageSize, q.offset) : o \in InjSeqs(DistinctSessions(RowsOf(tbl))) }

\* where(inArray(sessionId, sessionIds)).orderBy(asc|desc(createdAt), sessionId)
NextSessionChats(tbl, ids, q) ==
    OrderedByDateThenSession(InSessions(tbl, ids), q.sortOrder # "asc")

\* GET up to the validation; the route exports no other method.
NextGET ==
    /\ variant = "next"
    /\ pc = "idle"
    /\ \E r \in RawRequests(profile, variant) :
          /\ r.path = ChatsPath
          /\ LET q == ParseNext(r)
             IN  IF JsLess(q.page, 1)
                 THEN Reject(r, JsonError(400, "Page must be greater than 0"))
                 ELSE IF JsLess(q.pageSize, 1) \/ JsGreater(q.pageSize, MaxPageSize)
                 THEN Reject(r, JsonError(400, "Page size must be between 1 and 100"))
                 ELSE Accept(r, q, IF q.groupBy = "session" THEN "sessions" ELSE "rows")

\* GET, simple branch: the page of rows.
NextSimpleQuery ==
    /\ variant = "next"
    /\ pc = "rows"
    /\ \/ Respond(InternalError)
       \/ /\ ~(BadBound(req.pageSize) \/ BadBound(req.offset))
          /\ \E rows \in NextSimpleRows(table, req) :
                GotRows(JsArray(rows), "count")

\* GET, simple branch: the count and the response.
NextSimpleCount ==
    /\ variant = "next"
    /\ pc = "count"
    /\ \/ Respond(InternalError)
       \/ \E n \in { Len(table) } :
             Respond(JsonOK(chats, NextPagination(req, n, "simple")))

\* GET, session branch: the page of sessions and the early return.
NextSessionQuery ==
    /\ variant = "next"
    /\ pc = "sessions"
    /\ \/ Respond(InternalError)
       \/ /\ ~(BadBound(req.pageSize) \/ BadBound(req.offset))
          /\ \E ids \in NextSessionIds(table, req) :
                IF Len(ids) = 0
                THEN Respond(JsonOK(JsArray(<<>>), NextEmptyPagination(req)))
                ELSE GotSessions(ids, "chats")

\* GET, session branch: the chats of the sessions and the reduce.
NextSessionChatsQuery ==
    /\ variant = "next"
    /\ pc = "chats"
    /\ \/ Respond(InternalError)
       \/ \E rows \in NextSessionChats(table, sessionIDs, req) :
             GotRows(JsonObject(GroupBySession(rows)), "sessionCount")

\* GET, session branch: the count and the response.
NextSessionCount ==
    /\ variant = "next"
    /\ pc = "sessionCount"
    /\ \/ Respond(InternalError)
       \/ \E n \in { Cardinality(DistinctSessions(RowsOf(table))) } :
             Respond(JsonOK(chats, NextPagination(req, n, "session")))

\* ------------------------------------------------------ /api/stats
\* startOfToday, startOfMonth and startOfYear of the day the requests arrive,
\* on the scale of the created_at values the workflow writes.
StartOfToday == 2

StartOfMonth == 2

StartOfYear == 1

\* make(chan countResult, 1)
ChanCap == 1

\* SELECT COUNT(*) FROM chats [WHERE created_at >= boundary]
StatsCount(k, tbl) ==
    LET since == IF k = "daily" THEN StartOfToday
                 ELSE IF k = "monthly" THEN StartOfMonth
                 ELSE IF k = "yearly" THEN StartOfYear
                 ELSE 0
    IN  Cardinality({ r \in RowsOf(tbl) : r.createdAt >= since })

\* What a count query leaves: its count, or an error.
StatsResults(k, tbl) ==
    { [ st |-> "ok", count |-> StatsCount(k, tbl), ch |-> 0, got |-> FALSE ],
      [ st |-> "failed", count |-> 0, ch |-> 0, got |-> FALSE ] }

AllResolved(s) == \A k \in DOMAIN s : s[k].st \in { "ok", "failed" }

\* { data: { daily, monthly, yearly, allTime } }
StatsOK(s) ==
    [ status |-> 200, ctype |-> "json",
      body |-> [ data |-> [ k \in DOMAIN s |-> s[k].count ] ] ]

\* A variant of the error check that looks at the first result only.
StatsErrDailyOnly(s) == s["daily"].st = "failed"

\* dailyResult.err != nil || monthlyResult.err != nil || ...
StatsErr(s) == \E k \in DOMAIN s : s[k].st = "failed"

\* GetChatStatsHandler of the strict Go server up to the four go statements.
GetChatStatsHandler ==
    /\ variant = "strict"
    /\ pc = "idle"
    /\ \E r \in RawRequests(profile, variant) :
          /\ StrictOriginCheckMiddleware(r) = NoResp
          /\ r.path = StatsPath
          /\ IF r.method # "GET" THEN Reject(r, TextError(405, "Method not allowed"))
             ELSE StartStats(r)

\* A variant of the goroutines without the return after the send of an error:
\* the goroutine goes on to a second send, for which the buffer has no room.
StatsQuerySendsTwice ==
    /\ variant = "strict"
    /\ pc = "stats"
    /\ \E k \in DOMAIN stats :
          /\ stats[k].st = "running"
          /\ \E result \in StatsResults(k, table) :
                StatsResolved(k, IF result.st = "failed" \/ stats[k].ch >= ChanCap
                                 THEN [ result EXCEPT !.st = "blocked", !.ch = ChanCap ]
                                 ELSE [ result EXCEPT !.ch = stats[k].ch + 1 ])

\* One goroutine: its query, and its send on its channel, which goes through
\* when the buffer has room and blocks the goroutine otherwise.
StatsQuery ==
    /\ variant = "strict"
    /\ pc = "stats"
    /\ \E k \in DOMAIN stats :
          /\ stats[k].st = "running"
          /\ \E result \in StatsResults(k, table) :
                StatsResolved(k, IF stats[k].ch < ChanCap
                                 THEN [ result EXCEPT !.ch = stats[k].ch + 1 ]
                                 ELSE [ result EXCEPT !.st = "blocked" ])

\* The receives of GetChatStatsHandler, in the order daily, monthly, yearly,
\* allTime: each waits for a result in its channel.
StatsReceive ==
    /\ variant = "strict"
    /\ pc = "stats"
    /\ \E i \in 1..Len(StatsKeys) :
          /\ \A j \in 1..(i - 1) : stats[StatsKeys[j]].got
          /\ ~stats[StatsKeys[i]].got
          /\ stats[StatsKeys[i]].ch > 0
          /\ StatsResolved(StatsKeys[i],
                           [ stats[StatsKeys[i]] EXCEPT !.ch = @ - 1, !.got = TRUE ])

\* GetChatStatsHandler from the error check to the response.
StatsRespond ==
    /\ variant = "strict"
    /\ pc = "stats"
    /\ \A k \in DOMAIN stats : stats[k].got
    /\ IF StatsErr(stats) THEN Respond(InternalError) ELSE Respond(StatsOK(stats))

\* GET of the stats route up to the await: the four queries are started.
NextStatsGET ==
    /\ variant = "next"
    /\ pc = "idle"
    /\ \E r \in RawRequests(profile, variant) :
          /\ r.path = StatsPath
          /\ StartStats(r)

\* One query promise settles; those still pending when Promise.all rejects
\* settle after the response.
NextStatsQuery ==
    /\ variant = "next"
    /\ handler = "GetChatStatsHandler"
    /\ pc \in { "stats", "done" }
    /\ \E k \in DOMAIN stats :
          /\ stats[k].st = "running"
          /\ \E result \in StatsResults(k, table) : StatsResolved(k, result)

\* Promise.all fulfils once the four promises have: the 200 response.
NextStatsResolve ==
    /\ variant = "next"
    /\ pc = "stats"
    /\ \A k \in DOMAIN stats : stats[k].st = "ok"
    /\ Respond(StatsOK(stats))

\* Promise.all rejects as soon as one promise has: the catch block.
NextStatsCatch ==
    /\ variant = "next"
    /\ pc = "stats"
    /\ \E k \in DOMAIN stats : stats[k].st = "failed"
    /\ Respond(TextError(500, "Internal Server Error"))

\* ------------------------------------------------ around the handlers
\* What a client that pages through the table keeps of an answered request:
\* what it asked for and the session ids, or the row ids, it was given.
Remember ==
    IF profile = "paging" /\ resp.status = 200 /\ handler = "GetChatsHandler"
    THEN [ set |-> TRUE, req |-> req,
           ids |-> IF req.groupBy = "session" THEN DOMAIN resp.body.data.map
                   ELSE { resp.body.data.rows[i].id : i \in 1..Len(resp.body.data.rows) } ]
    ELSE NoPrev

\* The response has been sent; the server waits for the next request.
Finish ==
    /\ pc = "done"
    /\ pc' = "idle"
    /\ prev' = Remember
    /\ raw' = NoRaw
    /\ req' = NoReq
    /\ sessionIDs' = <<>>
    /\ chats' = NoData
    /\ resp' = NoResp
    /\ dirty' = FALSE
    /\ stats' = NoStats
    /\ handler' = ""
    /\ snapshot' = 0
    /\ UNCHANGED << variant, profile, ui, initErr, table >>

\* The table of the search-enabled server has no timestamp; the messages of the
\* other two are not read by the handlers.
NewRow(v, id, s, m, d) ==
    [ id |-> id, sessionId |-> s,
      message   |-> IF v = "search" THEN m ELSE <<"b">>,
      createdAt |-> IF v = "search" THEN 1 ELSE d ]

\* The workflow (n8n) appends a chat record.  Ids follow insertion in the table
\* of the search-enabled server and only tell rows apart in the chats table.
Insert ==
    /\ Len(table) < RowBound(profile)
    /\ pc = "idle" \/ (profile = "racing" /\ pc # "done")
    /\ \E s \in SessionIds, m \in MessageInputs(profile), d \in Dates :
          table' = Append(table, NewRow(variant, Len(table) + 1, s, m, d))
    /\ dirty' = (pc # "idle")
    /\ prev' = NoPrev
    /\ UNCHANGED << variant, profile, ui, initErr, snapshot, stats, handler, raw, req, pc,
                    sessionIDs, chats, resp >>

InitWith(pf) ==
    /\ variant \in Variants
    /\ profile = pf
    /\ table = <<>>
    /\ dirty = FALSE
    /\ raw = NoRaw
    /\ req = NoReq
    /\ pc = "idle"
    /\ sessionIDs = <<>>
    /\ chats = NoData
    /\ resp = NoResp
    /\ prev = NoPrev
    /\ stats = NoStats
    /\ handler = ""
    /\ initErr = FALSE
    /\ snapshot = 0
    /\ ui = Mounted

Init == InitWith("engine")

Next ==
    \/ Insert
    \/ Finish
    \/ OriginCheckForbidden
    \/ GetChatsHandler
    \/ SimpleQuery
    \/ SimpleCount
    \/ SessionQuery
    \/ SessionChats
    \/ SessionCount
    \/ StrictOriginCheckForbidden
    \/ StrictGetChatsHandler
    \/ StrictSimpleQuery
    \/ StrictSimpleCount
    \/ StrictSessionQuery
    \/ StrictSessionChatsQuery
    \/ StrictSessionCount
    \/ NextGET
    \/ NextSimpleQuery
    \/ NextSimpleCount
    \/ NextSessionQuery
    \/ NextSessionChatsQuery
    \/ NextSessionCount
    \/ GetChatStatsHandler
    \/ StatsQuery
    \/ StatsReceive
    \/ StatsRespond
    \/ NextStatsGET
    \/ NextStatsQuery
    \/ NextStatsResolve
    \/ NextStatsCatch

Spec == Init /\ [][Next]_vars

\* ------------------------------------------------------------ startup
\* initDB and what main does with its result, up to ListenAndServe or the exit.
Started(err, listening) ==
    /\ pc = "main"
    /\ initErr' = err
    /\ pc' = IF listening THEN "idle" ELSE "exited"
    /\ UNCHANGED << variant, profile, ui, table, dirty, raw, req, sessionIDs, chats, resp, prev,
                    stats, handler, snapshot >>

\* main of the search-enabled server: log.Fatal ends the process when initDB
\* or ListenAndServe returns an error.
Main ==
    /\ variant = "search"
    /\ \E err \in BOOLEAN, bound \in BOOLEAN : Started(err, ~err /\ bound)

\* main of the strict server: the error of initDB is logged and main goes on to
\* ListenAndServe; sql.DB connects when a query needs a connection, so a
\* query through the pool fails or, once the database is up, succeeds.
StrictMain ==
    /\ variant = "strict"
    /\ \E err \in BOOLEAN, bound \in BOOLEAN : Started(err, bound)

\* The Go processes from their start; the Next.js application has no main of
\* its own in the repository and is taken from where it serves.
BootInit ==
    /\ variant \in Variants
    /\ profile = "params"
    /\ table = <<>>
    /\ dirty = FALSE
    /\ raw = NoRaw
    /\ req = NoReq
    /\ pc = IF variant = "next" THEN "idle" ELSE "main"
    /\ sessionIDs = <<>>
    /\ chats = NoData
    /\ resp = NoResp
    /\ prev = NoPrev
    /\ stats = NoStats
    /\ handler = ""
    /\ initErr = FALSE
    /\ snapshot = 0
    /\ ui = Mounted

BootNext ==
    \/ Main
    \/ StrictMain
    \/ Next

SpecBoot == BootInit /\ [][BootNext]_vars

SpecParams == InitWith("params") /\ [][Next]_vars

SpecPaging == InitWith("paging") /\ [][Next]_vars

SpecEdges == InitWith("edges") /\ [][Next]_vars

\* The workflow inserts rows while a request is being served.
SpecRacing == InitWith("racing") /\ [][Next]_vars

\* ----------------------------------------------------- the browser UI
\* filteredChats of ChatsUI: what the views render of data.data.  A payload is
\* modelled by its content, the text both the server and the client search.
filteredChats(searchTerm, data, groupBy) ==
    LET lower == ToLower(searchTerm)
        includes(s) ==
            \E i \in 0..(Len(s) - Len(lower)) :
                \A j \in 1..Len(lower) : LowerOf(s[i + j]) = lower[j]
        matchedMessages(sessionId) ==
            SelectSeq(data.map[sessionId],
                      LAMBDA chat : includes(chat.message) \/ includes(sessionId))
    IN  IF searchTerm = <<>> \/ data.t \in { "none", "null" } THEN data
        ELSE IF groupBy = "simple" /\ data.t = "array"
        THEN JsArray(SelectSeq(data.rows,
                               LAMBDA chat : includes(chat.message) \/ includes(chat.sessionId)))
        ELSE IF groupBy = "session"
        THEN JsonObject([ sessionId \in { k \in DOMAIN data.map : matchedMessages(k) # <<>> }
                            |-> matchedMessages(sessionId) ])
        ELSE JsArray(<<>>)

\* The search terms typed, and the table the browser looks at through them:
\* 21 conversations of one message each, of which 5 contain "a" and none "b".
UITerms == { <<>>, << "a" >>, << "b" >> }

UIMatching(term) == IF term = <<>> THEN 21 ELSE IF term = << "a" >> THEN 5 ELSE 0

\* fetchChats: the pagination of the response to the request made of the state
\* u, as the server in use computes it; only the search-enabled server reads
\* the search parameter.
fetchChats(u) ==
    LET q == [ page |-> Num(u.page), pageSize |-> Num(UIPageSize) ]
        total == UIMatching(IF variant = "search" THEN u.searchTerm ELSE <<>>)
    IN  IF u.groupBy = "session" /\ (u.page - 1) * UIPageSize >= total
        THEN IF variant = "next" THEN NextEmptyPagination(q) ELSE GoEmptyPagination(q)
        ELSE IF variant = "next" THEN NextPagination(q, total, u.groupBy)
        ELSE GoPagination(q, total, u.groupBy)

\* useQuery: a state u whose query key differs from the one in use starts a
\* fetch, and data is undefined until its response is there.
useQuery(u) ==
    IF << u.searchTerm, u.page, u.groupBy, u.sortOrder >>
           = << ui.searchTerm, ui.page, ui.groupBy, ui.sortOrder >>
    THEN u
    ELSE [ u EXCEPT !.isLoading = TRUE, !.data = FALSE ]

\* A step of the browser: the servers stay as they are.
Rendered(u, button) ==
    /\ ui' = [ useQuery(u) EXCEPT !.clicked = button,
                                  !.from = IF button = "" THEN 0 ELSE ui.page ]
    /\ UNCHANGED << variant, profile, table, dirty, raw, req, pc, sessionIDs, chats, resp,
                    prev, stats, handler, initErr, snapshot >>

\* onChange={(e) => setSearchTerm(e.target.value)}
setSearchTerm ==
    /\ \E value \in UITerms \ { ui.searchTerm } :
          Rendered([ ui EXCEPT !.searchTerm = value ], "")

handleGroupByChange ==
    /\ \E value \in { "simple", "session" } :
          Rendered([ ui EXCEPT !.groupBy = value, !.page = 1 ], "")

handleSortOrderChange ==
    /\ \E value \in { "asc", "desc" } \ { ui.sortOrder } :
          Rendered([ ui EXCEPT !.sortOrder = value ], "")

\* useEffect on data: the response is there and its pagination is merged into
\* the state.
useEffect ==
    /\ ui.isLoading
    /\ LET p == fetchChats(ui)
       IN  ui' = [ ui EXCEPT !.isLoading = FALSE, !.data = TRUE,
                             !.dataTotalPages = p.totalPages.v,
                             !.page = p.page.v,
                             !.totalPages = p.totalPages.v,
                             !.groupBy = IF "groupBy" \in DOMAIN p THEN p.groupBy ELSE @ ]
    /\ UNCHANGED << variant, profile, table, dirty, raw, req, pc, sessionIDs, chats, resp,
                    prev, stats, handler, initErr, snapshot >>

handlePageChange(newPage) ==
    IF /\ newPage >= 1
       /\ newPage <= (IF ui.data /\ ui.dataTotalPages # 0 THEN ui.dataTotalPages ELSE 1)
    THEN [ ui EXCEPT !.page = newPage ]
    ELSE ui

\* renderPagination: the buttons that are rendered and enabled, each with the
\* page its click hands to handlePageChange.
renderPagination ==
    IF ui.isLoading THEN {}
    ELSE    (IF ui.page <= 1 THEN {} ELSE { [ button |-> "Previous", page |-> ui.page - 1 ] })
     \cup  { [ button |-> "Page", page |-> Max(1, ui.page - 2) + i ] :
                i \in { j \in 0..(Min(5, ui.totalPages) - 1) :
                           Max(1, ui.page - 2) + j <= ui.totalPages } }
     \cup  (IF ui.page >= ui.totalPages THEN {}
            ELSE { [ button |-> "Next", page |-> ui.page + 1 ] })

\* A click on a pagination button.
Click ==
    /\ \E b \in renderPagination : Rendered(handlePageChange(b.page), b.button)

UINext ==
    \/ setSearchTerm
    \/ handleGroupByChange
    \/ handleSortOrderChange
    \/ useEffect
    \/ Click

\* The browser against a server that answers every request.
SpecUI == Init /\ [][UINext]_vars

\* ------------------------------------------- what the claims speak of
\* The request in hand was answered 200.
Answered == pc = "done" /\ resp.status = 200 /\ handler = "GetChatsHandler"

SessionMode == req.groupBy = "session"

Pagination == resp.body.pagination

Data == resp.body.data

\* The total the pagination reports, under either of the names it goes by.
ReportedTotal ==
    IF "total" \in DOMAIN Pagination THEN Pagination.total ELSE Pagination.totalSessions

\* The session ids that are keys of the returned data.
DataKeys == DOMAIN Data.map

\* No row was inserted while the request was served.
FixedTable == ~dirty

\* ceil(total / pageSize): the least n with n * pageSize >= total.
Ceiling(total, pageSize) ==
    CHOOSE n \in 0..total :
        n * pageSize >= total /\ \A m \in 0..(n - 1) : m * pageSize < total

\* t occurs in s, letter case aside.
Contains(s, t) ==
    \E i \in 0..(Len(s) - Len(t)) : \A j \in 1..Len(t) : LowerOf(s[i + j]) = LowerOf(t[j])

\* The rows the filter keeps: those whose message or session id contains the term.
Matching(term) ==
    IF term = <<>> THEN RowsOf(table)
    ELSE { r \in RowsOf(table) : Contains(r.message, term) \/ Contains(r.sessionId, term) }

MatchingSessions(term) == { r.sessionId : r \in Matching(term) }

\* The rows the WHERE clause of the handler in hand keeps (only the
\* search-enabled server has one).
Kept == IF variant = "search" THEN SearchFilter(table, req.searchTerm) ELSE RowsOf(table)

KeptSessions == { r.sessionId : r \in Kept }

\* The sort key: the insertion id where the table has no timestamp.
SortKey(r) == IF variant = "search" THEN r.id ELSE r.createdAt

InRequestedOrder(seq) ==
    \A i, j \in 1..Len(seq) :
        i < j => IF raw.sortOrder = "desc" THEN SortKey(seq[i]) >= SortKey(seq[j])
                 ELSE SortKey(seq[i]) <= SortKey(seq[j])

\* Positions (page-1)*pageSize+1 .. min(page*pageSize, N) of seq; a page number
\* past every small integer is past the last page.
PageOf(seq, page, pageSize) ==
    IF page.k = "int"
    THEN SubSeq(seq, (page.v - 1) * pageSize.v + 1, Min(page.v * pageSize.v, Len(seq)))
    ELSE <<>>

\* The distinct ids of S in lexicographic order.
Lexicographic(S) ==
    CHOOSE o \in InjSeqs(S) : \A i \in 1..(Len(o) - 1) : StrLess(o[i], o[i + 1])

\* ---------------------------------------------------------- the claims
\* C1: every successful /api/chats response, in simple and in session mode and
\* in each of the three handlers, carries pagination.total and has
\* pagination.totalPages = ceil(pagination.total / pagination.pageSize); total = 0
\* gives totalPages = 0.
C1_TotalPagesIsCeiling ==
    Answered =>
        /\ "total" \in DOMAIN Pagination
        /\ Pagination.totalPages = Num(Ceiling(Pagination.total.v, Pagination.pageSize.v))

\* C2: in simple mode on a fixed table the returned data is exactly the rows at
\* positions (page-1)*pageSize+1 .. min(page*pageSize, N) of the filtered rows
\* sorted in the requested order, for every accepted page and pageSize (the
\* filtered rows are taken as the WHERE clause gives them).
C2_SimpleWindow ==
    (Answered /\ ~SessionMode /\ FixedTable) =>
        \E o \in InjSeqs(Kept) :
            /\ InRequestedOrder(o)
            /\ Data.rows = PageOf(o, req.page, req.pageSize)

\* C3: in session mode of the search-enabled Go handler with a non-empty search
\* term, every session id returned has a record whose message contains the term,
\* or contains it itself, letter case aside.
C3_OnlyMatchingSessions ==
    (Answered /\ SessionMode /\ variant = "search" /\ req.searchTerm # <<>>) =>
        DataKeys \subseteq MatchingSessions(req.searchTerm)

\* C4: in session mode on a fixed table the keys of the returned data are the
\* session ids selected for the page, and each conversation holds every record
\* of its session (matching the search term or not), each once, no record of
\* another session, and at least one record.
C4_WholeConversations ==
    (Answered /\ SessionMode /\ FixedTable) =>
        /\ DataKeys = Elements(sessionIDs)
        /\ \A s \in DataKeys :
              /\ Elements(Data.map[s]) = { r \in RowsOf(table) : r.sessionId = s }
              /\ Len(Data.map[s]) = Cardinality(Elements(Data.map[s]))
              /\ Data.map[s] # <<>>

\* A search picked one session of two, and its conversation came back with a
\* record that does not contain the term.
C4_Witness ==
    /\ Answered /\ SessionMode /\ FixedTable
    /\ req.searchTerm # <<>>
    /\ \E s \in DataKeys :
          /\ Len(Data.map[s]) >= 2
          /\ \E i \in 1..Len(Data.map[s]) : Data.map[s][i] \notin Matching(req.searchTerm)
    /\ \E r \in RowsOf(table) : r.sessionId \notin DataKeys

\* C5: in session mode, for every accepted page >= 1, pages past the last one
\* included, the total of the pagination is the number of distinct session ids
\* the filter keeps (not the number of rows) and totalPages is computed from it.
C5_TotalCountsSessions ==
    (Answered /\ SessionMode /\ FixedTable) =>
        /\ ReportedTotal = Num(Cardinality(KeptSessions))
        /\ Pagination.totalPages = Num(Ceiling(Cardinality(KeptSessions), req.pageSize.v))

\* C6: in session mode, when the selection of sessions returns none, each of the
\* three handlers answers with data an empty mapping and pagination of page,
\* pageSize, total = 0, totalPages = 0 and groupBy = session.
C6_EmptyPageShape ==
    (Answered /\ SessionMode /\ sessionIDs = <<>>) =>
        /\ Data.t = "object"
        /\ DataKeys = {}
        /\ Pagination = [ page |-> req.page, pageSize |-> req.pageSize, total |-> Num(0),
                          totalPages |-> Num(0), groupBy |-> "session" ]

\* C7: in session mode on a fixed table the session ids of a page are among the
\* distinct session ids the filter keeps and number at most pageSize, and with
\* the same pageSize and search term no session id is in the data of both
\* page p and page p+1; in each of the three handlers.
C7_PagesDoNotOverlap ==
    (Answered /\ SessionMode /\ FixedTable) =>
        /\ DataKeys \subseteq KeptSessions
        /\ Cardinality(DataKeys) <= req.pageSize.v
        /\ (/\ prev.set
            /\ prev.req.groupBy = req.groupBy
            /\ prev.req.pageSize = req.pageSize
            /\ prev.req.searchTerm = req.searchTerm
            /\ prev.req.page.v - req.page.v \in { 1, -1 })
           => prev.ids \cap DataKeys = {}

\* C8: in session mode of the search-enabled Go handler on a fixed table the
\* session ids returned are the page-th window of the distinct session ids the
\* filter keeps, sorted lexicographically ascending, whatever sortOrder is.
C8_SessionWindow ==
    (Answered /\ SessionMode /\ FixedTable /\ variant = "search") =>
        DataKeys = Elements(PageOf(Lexicographic(KeptSessions), req.page, req.pageSize))

\* C9: in session mode the messages of every returned conversation are in the
\* requested order of the sort key: non-decreasing for asc, non-increasing for desc.
C9_ConversationOrder ==
    (Answered /\ SessionMode) => \A s \in DataKeys : InRequestedOrder(Data.map[s])

\* A descending request was answered with a conversation whose first message is
\* newer than its last.
C9_Witness ==
    /\ Answered /\ SessionMode
    /\ raw.sortOrder = "desc"
    /\ \E s \in DataKeys :
          SortKey(Data.map[s][1]) > SortKey(Data.map[s][Len(Data.map[s])])

\* The parameter is written as a decimal integer: digits after an optional minus.
IsDecimal(s) ==
    LET body == IF s # <<>> /\ Head(s) = "-" THEN Tail(s) ELSE s
    IN  body # <<>> /\ \A i \in 1..Len(body) : \E d \in 1..10 : Digits[d] = body[i]

\* The value of an unsigned decimal of at most three digits.
Value(s) ==
    LET n    == Len(s)
        D(i) == IF i <= n THEN ((CHOOSE d \in 1..10 : Digits[d] = s[i]) - 1) * 10^(n - i)
                ELSE 0
    IN  D(1) + D(2) + D(3)

\* The parameter is an integer >= 1.
PositiveInteger(s) ==
    IsDecimal(s) /\ Head(s) # "-" /\ \E i \in 1..Len(s) : s[i] # "0"

\* The parameter is an integer in 1..100 (written without leading zeros).
InSizeRange(s) == PositiveInteger(s) /\ Len(s) <= 3 /\ Value(s) \in 1..100

\* C10: the search-enabled Go handler is permissive: a page input that is
\* missing, unparsable, zero or negative gives the effective page 1, a pageSize
\* input that is no integer in 1..100 gives the effective pageSize 10, no such
\* input is answered 400, and the response echoes the effective values and its
\* rows start at offset (page - 1) * pageSize of them.
C10_PermissiveDefaults ==
    (variant = "search" /\ handler = "GetChatsHandler" /\ raw.method = "GET") =>
        /\ resp.status # 400
        /\ ~PositiveInteger(raw.page) => req.page = Num(1)
        /\ (PositiveInteger(raw.page) /\ Len(raw.page) <= 3) => req.page = Num(Value(raw.page))
        /\ ~InSizeRange(raw.pageSize) => req.pageSize = Num(10)
        /\ InSizeRange(raw.pageSize) => req.pageSize = Num(Value(raw.pageSize))
        /\ Answered =>
              /\ Pagination.page = req.page /\ Pagination.pageSize = req.pageSize
              /\ (~SessionMode /\ req.page.k = "int") =>
                    \E o \in InjSeqs(Kept) :
                        InRequestedOrder(o) /\ Data.rows = PageOf(o, req.page, req.pageSize)

\* page=0 and pageSize=101 were answered as page 1 of size 10, with the first row.
C10_Witness ==
    /\ variant = "search" /\ Answered
    /\ raw.page = <<"0">> /\ raw.pageSize = <<"1", "0", "1">>
    /\ Pagination.page = Num(1) /\ Pagination.pageSize = Num(10)
    /\ Data.rows # <<>>

\* The request in hand reached a chats handler as a GET.
Handled == handler = "GetChatsHandler" /\ raw.method = "GET"

Strict == variant \in { "strict", "next" }

\* The parameter is an integer below 1, or an integer outside 1..100.
IntegerBelowOne(s) == IsDecimal(s) /\ ~PositiveInteger(s)

IntegerOutOfRange(s) == IsDecimal(s) /\ ~InSizeRange(s)

\* C11: the strict handlers (strict Go, Next.js) answer an integer page below 1
\* and an integer pageSize outside 1..100 (0 and 101 alike) with 400 and a
\* message, before any query is issued, and do not answer 400 when page is an
\* integer >= 1 and pageSize an integer in 1..100 (1 and 100 alike).
C11_StrictRejectsOutOfRange ==
    (Strict /\ Handled) =>
        /\ (IntegerBelowOne(raw.page) \/ IntegerOutOfRange(raw.pageSize)) =>
              /\ pc = "done"
              /\ resp.status = 400
              /\ resp.ctype = "json" /\ DOMAIN resp.body = { "error" }
              /\ req = NoReq /\ chats = NoData /\ sessionIDs = <<>>
        /\ (PositiveInteger(raw.page) /\ InSizeRange(raw.pageSize)) => resp.status # 400

\* The parameter is present and is no integer.
Unparsable(s) == s # <<>> /\ ~IsDecimal(s)

\* The parameter leaves the range validation nothing to reject.
PageAcceptable(s) == ~IsDecimal(s) \/ PositiveInteger(s)

SizeAcceptable(s) == ~IsDecimal(s) \/ InSizeRange(s)

\* C12: in the strict handlers an unparsable page is replaced by 1 and an
\* unparsable pageSize by 10 before the range validation: the request is not
\* answered 400 because of it, the offset is an integer computed from integers,
\* and the 200 response echoes the integer page and pageSize.
C12_UnparsableFallsBack ==
    (Strict /\ Handled /\ PageAcceptable(raw.page) /\ SizeAcceptable(raw.pageSize)
       /\ (Unparsable(raw.page) \/ Unparsable(raw.pageSize))) =>
        /\ resp.status # 400
        /\ Unparsable(raw.page) => req.page = Num(DefaultPage)
        /\ Unparsable(raw.pageSize) => req.pageSize = Num(DefaultPageSize)
        /\ req.offset.k = "int"
        /\ Answered =>
              /\ Pagination.page = req.page /\ Pagination.page.k = "int"
              /\ Pagination.pageSize = req.pageSize /\ Pagination.pageSize.k = "int"

Ascending(seq) == \A i, j \in 1..Len(seq) : i < j => SortKey(seq[i]) <= SortKey(seq[j])

\* C13: in every handler a sortOrder other than asc and desc is treated as asc
\* (the rows of the page, and of each conversation, come back ascending), a
\* groupBy other than simple and session is treated as simple (an array of
\* rows, groupBy = simple in the response), and neither is answered 400.
C13_SortAndGroupDefaults ==
    (Handled /\ (raw.sortOrder \notin { "asc", "desc" } \/ raw.groupBy \notin { "simple", "session" })
       /\ PageAcceptable(raw.page) /\ SizeAcceptable(raw.pageSize)) =>
        /\ resp.status # 400
        /\ (Answered /\ raw.groupBy \notin { "simple", "session" }) =>
              Pagination.groupBy = "simple" /\ Data.t # "object"
        /\ (Answered /\ FixedTable /\ raw.sortOrder \notin { "asc", "desc" }) =>
              /\ Ascending(Data.rows)
              /\ \A k \in DataKeys : Ascending(Data.map[k])

\* The rows a 200 response carries, of either mode.
RowsSent ==
    Elements(Data.rows) \cup UNION { Elements(Data.map[k]) : k \in DataKeys }

StatsHandled == handler = "GetChatStatsHandler" /\ raw.method = "GET"

\* C15: a /api/stats request has started all four count queries when it begins
\* to wait, and its response (200 or 500) is sent only once all four are over,
\* with a count or an error, in the Go stats handler and the Next.js stats
\* route alike, also when one query fails while others are running.
C15_StatsWaitsForAllFour ==
    StatsHandled =>
        /\ \A k \in DOMAIN stats : stats[k].st # "idle"
        /\ pc = "done" => AllResolved(stats)

\* C16: when any one of the four stats queries has failed the response is a
\* 500 that carries none of the counts, and a response with data {daily,
\* monthly, yearly, allTime} is sent only when all four queries succeeded.
C16_NoPartialStats ==
    (StatsHandled /\ pc = "done") =>
        /\ resp.status \in { 200, 500 }
        /\ (\E k \in DOMAIN stats : stats[k].st = "failed") =>
              resp.status = 500 /\ "data" \notin DOMAIN resp.body
        /\ resp.status = 200 =>
              /\ \A k \in DOMAIN stats : stats[k].st = "ok"
              /\ DOMAIN resp.body = { "data" }
              /\ DOMAIN resp.body.data = { "daily", "monthly", "yearly", "allTime" }
              /\ \A k \in DOMAIN stats : resp.body.data[k] = stats[k].count

\* The Go handler answered 500 when only its last query, allTime, had failed.
C16_Witness ==
    /\ variant = "strict" /\ StatsHandled /\ pc = "done"
    /\ stats["allTime"].st = "failed"
    /\ \A k \in { "daily", "monthly", "yearly" } : stats[k].st = "ok"
    /\ resp.status = 500 /\ "data" \notin DOMAIN resp.body
    /\ table # <<>>

GoServer == variant \in { "search", "strict" }

\* C17: a request whose Origin header is present and is not the allowed origin
\* is answered 403 by the middleware of both Go servers and never reaches the
\* wrapped handler: nothing is parsed or queried, and the body has no data.
C17_ForeignOriginForbidden ==
    (GoServer /\ raw.origin # <<>> /\ raw.origin # AllowedOrigin) =>
        /\ pc = "done"
        /\ resp.status = 403
        /\ handler = ""
        /\ req = NoReq /\ chats = NoData /\ sessionIDs = <<>> /\ stats = NoStats
        /\ "data" \notin DOMAIN resp.body

\* The search-enabled server turned away a foreign Origin that came with a
\* Referer of the allowed origin.
C17_Witness ==
    /\ variant = "search" /\ pc = "done"
    /\ raw.origin = OtherOrigin /\ raw.referer = AllowedOrigin \o << "/" >>
    /\ resp.status = 403 /\ handler = ""
    /\ table # <<>>

\* C18: in both Go servers every request that reaches GetChatsHandler or
\* GetChatStatsHandler through the middleware carried the allowed origin as its
\* Origin header, and a request without an Origin header, with or without a
\* Referer, is answered 403.
C18_HandlersSeeAllowedOrigin ==
    GoServer =>
        /\ handler # "" => raw.origin = AllowedOrigin
        /\ (pc # "idle" /\ raw.origin = <<>>) => pc = "done" /\ resp.status = 403

\* C19: every response with a 4xx or 5xx status (the 400 of the validation, the
\* 405 for a method other than GET, the 403 of the middleware, the 500 of the
\* chats handlers and of both stats handlers) has a JSON body of the form
\* {error: <message>}.
C19_ErrorBodyIsJson ==
    (pc = "done" /\ resp.status >= 400) =>
        resp.ctype = "json" /\ DOMAIN resp.body = { "error" }

\* C20: in simple mode the data of every 200 response is an array, the empty
\* array when the page has no row, never null and never absent.
C20_SimpleDataIsArray ==
    (Answered /\ ~SessionMode) =>
        /\ "data" \in DOMAIN resp.body
        /\ Data.t = "array"

\* C21: in both Go main functions an error of initDB ends the process before
\* it listens: the server never waits for, or serves, a request after initDB
\* returned an error.
C21_StartupFailureIsFatal ==
    (GoServer /\ initErr) => pc = "exited"

\* What the session view of the UI shows of the response in hand; the UI sent
\* its search term and its view as the search and groupBy parameters.
Displayed == filteredChats(raw.search, Data, req.groupBy)

\* C22: in the session view with a search term, every conversation the server
\* returned is displayed, with all the messages the server returned for it,
\* also those that do not contain the term themselves.
C22_SessionViewKeepsConversations ==
    (Answered /\ SessionMode /\ raw.search # <<>>) =>
        /\ DOMAIN Displayed.map = DataKeys
        /\ \A k \in DataKeys : Displayed.map[k] = Data.map[k]

\* The ids of the rows of the simple-mode response in hand.
RowIds == { Data.rows[i].id : i \in 1..Len(Data.rows) }

\* C23: in simple mode on a fixed table, two different pages among
\* 1..totalPages requested with the same pageSize, sortOrder and search term
\* share no row, and when these two are all the pages they hold every row the
\* filter keeps; in each of the three handlers, also when rows share their
\* createdAt value.
C23_SimplePagesPartition ==
    (/\ Answered /\ ~SessionMode /\ FixedTable
     /\ prev.set /\ prev.req.groupBy = req.groupBy
     /\ prev.req.pageSize = req.pageSize
     /\ prev.req.sortOrder = req.sortOrder
     /\ prev.req.searchTerm = req.searchTerm
     /\ prev.req.page # req.page
     /\ prev.req.page.v <= Pagination.totalPages.v
     /\ req.page.v <= Pagination.totalPages.v) =>
        /\ prev.ids \cap RowIds = {}
        /\ Pagination.totalPages.v = 2 => prev.ids \cup RowIds = { r.id : r \in Kept }

\* The rows the WHERE clause of the handler in hand keeps of the table as the
\* data query read it (rows are only ever appended).
KeptThen ==
    IF variant = "search" THEN SearchFilter(SubSeq(table, 1, snapshot), req.searchTerm)
    ELSE RowsOf(SubSeq(table, 1, snapshot))

\* C24: within one /api/chats request the total describes the table state the
\* data query read: it is the number of rows (in session mode, of distinct
\* sessions) the filter keeps of that state, also when a row is inserted
\* between the data query and the count query.
C24_TotalOfSameTableState ==
    Answered =>
        ReportedTotal.v = IF SessionMode THEN Cardinality({ r.sessionId : r \in KeptThen })
                          ELSE Cardinality(KeptThen)

\* The counts of a 200 response of /api/stats.
Counts == resp.body.data

\* C25: every 200 response of /api/stats has daily <= monthly <= yearly <=
\* allTime, also when rows are inserted while its four count queries are in
\* flight, whatever order they complete in.
C25_StatsAreMonotone ==
    (StatsHandled /\ pc = "done" /\ resp.status = 200) =>
        /\ Counts["daily"] <= Counts["monthly"]
        /\ Counts["monthly"] <= Counts["yearly"]
        /\ Counts["yearly"] <= Counts["allTime"]

\* The sends made so far on the channel of count k.
Sends(k) == stats[k].ch + (IF stats[k].got THEN 1 ELSE 0)

\* C26: in the Go stats handler every goroutine makes exactly one send on its
\* own channel and the send never blocks, whatever order the queries finish in
\* and whether they succeed or fail; the handler receives one result from each
\* channel, can always go on once every query has returned, and leaves no
\* goroutine running or blocked, and no result in a channel, when it responds.
C26_OneSendEachNeverBlocked ==
    (variant = "strict" /\ StatsHandled) =>
        /\ \A k \in DOMAIN stats :
              /\ stats[k].st # "blocked"
              /\ stats[k].ch <= ChanCap
              /\ Sends(k) = IF stats[k].st = "running" THEN 0 ELSE 1
        /\ (pc = "stats" /\ AllResolved(stats)) => ENABLED (StatsReceive \/ StatsRespond)
        /\ pc = "done" =>
              \A k \in DOMAIN stats :
                  stats[k].got /\ stats[k].ch = 0 /\ stats[k].st \in { "ok", "failed" }

\* The allTime goroutine, started last, has failed and sent its result while
\* the daily query, received first, is still running.
C26_Witness ==
    /\ variant = "strict" /\ StatsHandled /\ pc = "stats"
    /\ stats["allTime"].st = "failed" /\ stats["allTime"].ch = 1
    /\ stats["daily"].st = "running"
    /\ table # <<>>

\* C27: in the browser a click on Previous on a page greater than 1 sets the
\* page to the page before, whatever search terms, views, sort orders, clicks
\* and responses came before; and on a page greater than 1 some pagination
\* button leads to a lower page, so that page 1 can be reached with them.
C27_PreviousGoesBack ==
    /\ ui.clicked = "Previous" => ui.page = ui.from - 1
    /\ (ui.page > 1 /\ ~ui.isLoading) =>
          \E b \in renderPagination : handlePageChange(b.page).page < ui.page

\* C28: the search-enabled server's middleware passes a request to a handler
\* only if its Referer header, when present, is a URL on the allowed origin:
\* the allowed origin itself or the allowed origin followed by a path.  A
\* Referer of another origin whose text begins with the allowed origin is
\* answered 403.
C28_RefererOnAllowedOrigin ==
    (variant = "search" /\ handler # "") =>
        \/ raw.referer = <<>>
        \/ raw.referer = AllowedOrigin
        \/ HasPrefix(raw.referer, AllowedOrigin \o << "/" >>)

====
